---- MODULE Spec2Model ----
\* Model of the spreadsheet engine of src/src/App.jsx: the cell store, the
\* formula evaluator, the cycle check, the recursive refresh of dependents
\* and the undo/redo history.  Dependents lists are JavaScript arrays, shared
\* by reference between the store objects; they live in `heap`.
EXTENDS Integers, Sequences, FiniteSets, TLC

\* ---------------------------------------------------------------- bounds
\* The cell ids of the model, a corner of the grid of lines 30-31.
Cells == {"A1", "B1", "C1"}
\* The cells edited where undo and redo are used as well.
EditCells == {"A1", "B1"}
\* No cell is edited when the commit would make the history longer than
\* MaxHist snapshots.
MaxHist == 4

\* ---------------------------------------------------------------- texts
\* A text is a sequence of tokens; a token is an "=", a "+", a number
\* literal or a letters-digits run (a cell reference as typed).
Tok(t, n, c) == [t |-> t, n |-> n, c |-> c]
EqT == Tok("=", 0, "")
PlusT == Tok("+", 0, "")
NumT(n) == Tok("num", n, "")
RefT(c) == Tok("ref", 0, c)

\* "=<c>+1"
RefPlusOne(c) == <<EqT, RefT(c), PlusT, NumT(1)>>
\* "=A1+", the malformed text of the spec's scenario 3
Malformed == <<EqT, RefT("A1"), PlusT>>
\* "=5+", a malformed text without a reference
Dangling == <<EqT, NumT(5), PlusT>>
\* the texts typed into the cells A1 and B1: "=A1+1", "=b1+1", "=A1+"
Texts == {RefPlusOne("A1"), RefPlusOne("b1"), Malformed}
\* "=A1+A1", a text that names the same cell twice
TwiceRef == <<EqT, RefT("A1"), PlusT, RefT("A1")>>
\* the texts typed into the three cells: "=A1+1", "=b1+1", "=C1+1", "=5+", "=A1+A1"
GridTexts == {RefPlusOne("A1"), RefPlusOne("b1"), RefPlusOne("C1"), Dangling, TwiceRef}

\* String.prototype.toUpperCase on the letters of a reference
UpperOf(c) == CASE c = "a1" -> "A1" [] c = "b1" -> "B1" [] c = "c1" -> "C1" [] OTHER -> c
toUpperCase(text) == [i \in DOMAIN text |-> IF text[i].t = "ref" THEN RefT(UpperOf(text[i].c)) ELSE text[i]]
startsWithEq(text) == Len(text) > 0 /\ text[1] = EqT

RECURSIVE matchRefs(_)
\* text.match(/[A-Z]+[0-9]+/g) || []
matchRefs(text) ==
  IF text = <<>> THEN <<>>
  ELSE IF Head(text).t = "ref" /\ Head(text).c \in Cells
       THEN <<Head(text).c>> \o matchRefs(Tail(text))
       ELSE matchRefs(Tail(text))

\* ---------------------------------------------------------------- values
Val(k, n, s) == [kind |-> k, n |-> n, s |-> s]
NumVal(n) == Val("num", n, <<>>)
TextVal(s) == Val("text", 0, s)
ErrorVal == Val("#ERROR", 0, <<>>)
CircularVal == Val("#CIRCULAR", 0, <<>>)
\* JavaScript falsiness of a value: "" and 0
Falsy(v) == (v.kind = "text" /\ v.s = <<>>) \/ (v.kind = "num" /\ v.n = 0)
\* the text a value turns into when String.prototype.replace inserts it
ValueTokens(v) == IF v.kind = "num" THEN <<NumT(v.n)>> ELSE v.s

\* ---------------------------------------------------------------- store
\* A cell record; deps = 0 is a record without a `dependencies` property,
\* deps = k > 0 is a reference to the array heap[k].
CellRec(v, f, d) == [present |-> TRUE, value |-> v, formula |-> f, deps |-> d]
\* a key the store object does not have
Absent == [present |-> FALSE, value |-> TextVal(<<>>), formula |-> <<>>, deps |-> 0]
EmptyStore == [c \in Cells |-> Absent]

Range(s) == {s[i] : i \in DOMAIN s}
\* allCells[id]?.dependencies || []   (read only)
DepsOf(allCells, h, id) == IF allCells[id].present /\ allCells[id].deps # 0 THEN h[allCells[id].deps] ELSE <<>>

\* A store with every array reference replaced by the array's content.
DeepView(store, h) ==
  [c \in Cells |-> [present |-> store[c].present, value |-> store[c].value,
                    formula |-> store[c].formula, hasDeps |-> store[c].deps # 0,
                    dependents |-> DepsOf(store, h, c)]]

\* ---------------------------------------------------------------- evaluate
RECURSIVE SumOf(_)
SumOf(expr) == IF Len(expr) <= 1 THEN expr[1].n ELSE expr[1].n + SumOf(SubSeq(expr, 3, Len(expr)))
\* mathjs accepts  number (+ number)*  and throws on anything else
WellFormed(expr) ==
  /\ Len(expr) % 2 = 1
  /\ \A i \in DOMAIN expr : IF i % 2 = 1 THEN expr[i].t = "num" ELSE expr[i] = PlusT
\* an evaluator that takes a dangling operator for the end of the expression
evaluateLenient(expr) ==
  IF expr # <<>> /\ expr[Len(expr)] = PlusT /\ WellFormed(SubSeq(expr, 1, Len(expr) - 1))
  THEN NumVal(SumOf(SubSeq(expr, 1, Len(expr) - 1)))
  ELSE IF WellFormed(expr) THEN NumVal(SumOf(expr)) ELSE ErrorVal
\* try { return evaluate(expression) } catch { return "#ERROR" }
evaluate(expr) == IF WellFormed(expr) THEN NumVal(SumOf(expr)) ELSE ErrorVal

\* expression.replace(cellRef, cellValue): the first occurrence only
ReplaceFirst(expr, c, sub) ==
  LET hits == {i \in DOMAIN expr : expr[i] = RefT(c)}
  IN IF hits = {} THEN expr
     ELSE LET i == CHOOSE j \in hits : \A k \in hits : j <= k
          IN SubSeq(expr, 1, i - 1) \o sub \o SubSeq(expr, i + 1, Len(expr))

RECURSIVE substituteRefs(_, _, _, _)
\* the for loop of calculateFormula, then evaluate
substituteRefs(expression, cellRefs, i, currentCells) ==
  IF i > Len(cellRefs) THEN evaluate(expression)
  ELSE LET stored == currentCells[cellRefs[i]]
           cellValue == IF stored.present /\ ~Falsy(stored.value) THEN stored.value ELSE NumVal(0)
       IN IF cellValue.kind \in {"#ERROR", "#CIRCULAR"} THEN ErrorVal
          ELSE substituteRefs(ReplaceFirst(expression, cellRefs[i], ValueTokens(cellValue)),
                              cellRefs, i + 1, currentCells)

calculateFormula(formula, currentCells) ==
  IF ~startsWithEq(formula) THEN TextVal(formula)
  ELSE LET expression == toUpperCase(Tail(formula))
       IN substituteRefs(expression, matchRefs(expression), 1, currentCells)

\* ---------------------------------------------------------------- cycle check
\* A call chain deeper than the number of cells revisits a cell that is
\* still on the stack with the same arguments: the recursion never returns
\* and the engine throws RangeError.
StackLimit == Cardinality(Cells)

RECURSIVE hasCircularDependency(_, _, _, _, _)
RECURSIVE anyDependentCircular(_, _, _, _, _, _)
\* the walk without its base case
hasCircularDependencyNoBase(startCell, targetCell, allCells, h, depth) ==
  IF depth >= StackLimit THEN "overflow"
  ELSE anyDependentCircular(DepsOf(allCells, h, startCell), 1, targetCell, allCells, h, depth)
\* reads a property the cell records do not have: only the self-reference is seen
hasCircularDependencyNoWalk(startCell, targetCell, allCells, h, depth) ==
  IF startCell = targetCell THEN "true" ELSE "false"
hasCircularDependency(startCell, targetCell, allCells, h, depth) ==
  IF startCell = targetCell THEN "true"
  ELSE IF depth >= StackLimit THEN "overflow"
  ELSE anyDependentCircular(DepsOf(allCells, h, startCell), 1, targetCell, allCells, h, depth)
\* a loop that returns what the first dependent answers
anyDependentCircularFirstOnly(dependents, i, targetCell, allCells, h, depth) ==
  IF i > Len(dependents) THEN "false"
  ELSE hasCircularDependency(dependents[i], targetCell, allCells, h, depth + 1)
\* for (let dependent of dependents) if (hasCircularDependency(...)) return true
anyDependentCircular(dependents, i, targetCell, allCells, h, depth) ==
  IF i > Len(dependents) THEN "false"
  ELSE LET r == hasCircularDependency(dependents[i], targetCell, allCells, h, depth + 1)
       IN IF r = "false" THEN anyDependentCircular(dependents, i + 1, targetCell, allCells, h, depth)
          ELSE r

\* a cycle check that lets every edit through
cycleCheckNone(startCellId, parents, i, allCells, h) == "false"
RECURSIVE cycleCheck(_, _, _, _, _)
\* the "Cycle Check" loop over the parents
cycleCheck(startCellId, parents, i, allCells, h) ==
  IF i > Len(parents) THEN "false"
  ELSE LET r == hasCircularDependency(startCellId, parents[i], allCells, h, 0)
       IN IF r = "false" THEN cycleCheck(startCellId, parents, i + 1, allCells, h) ELSE r

\* ---------------------------------------------------------------- commit
\* status: "ok", "circular" (the cycle check rejected the edit), "throw" (a
\* TypeError left the call) or "overflow" (the recursion never returns: RangeError)
Result(c, h, s) == [cells |-> c, heap |-> h, status |-> s]
Thrown == {"throw", "overflow"}

\* dependencies: []   (the edited cell always gets a new empty array)
ownDependenciesFresh(startCellId, allCells, h) == [heap |-> Append(h, <<>>), ref |-> Len(h) + 1]
\* dependencies: allCells[startCellId]?.dependencies || []
\* the cell's own array, or a newly allocated empty one
ownDependencies(startCellId, allCells, h) ==
  IF allCells[startCellId].present /\ allCells[startCellId].deps # 0
  THEN [heap |-> h, ref |-> allCells[startCellId].deps]
  ELSE [heap |-> Append(h, <<>>), ref |-> Len(h) + 1]

RECURSIVE addEdges(_, _, _, _)
\* parents.forEach that pushes without asking includes()
addEdgesAlwaysPush(parents, i, startCellId, st) ==
  IF i > Len(parents) THEN st
  ELSE LET p == parents[i]
           fresh == ~st.cells[p].present
           h1 == IF fresh THEN Append(st.heap, <<>>) ELSE st.heap
           c1 == IF fresh THEN [st.cells EXCEPT ![p] = CellRec(TextVal(<<>>), <<>>, Len(h1))] ELSE st.cells
           ref == c1[p].deps
       IN IF ref = 0 THEN Result(c1, h1, "throw")
          ELSE addEdges(parents, i + 1, startCellId,
                        Result(c1, [h1 EXCEPT ![ref] = Append(@, startCellId)], "ok"))
\* parents.forEach that passes over a parent the store does not hold
addEdgesSkipAbsent(parents, i, startCellId, st) ==
  IF i > Len(parents) THEN st
  ELSE LET p == parents[i]
           ref == st.cells[p].deps
       IN IF ~st.cells[p].present THEN addEdges(parents, i + 1, startCellId, st)
          ELSE IF ref = 0 THEN Result(st.cells, st.heap, "throw")
          ELSE LET h2 == IF startCellId \in Range(st.heap[ref]) THEN st.heap
                         ELSE [st.heap EXCEPT ![ref] = Append(@, startCellId)]
               IN addEdges(parents, i + 1, startCellId, Result(st.cells, h2, "ok"))
\* parents.forEach without the push: the parent is materialised only
addEdgesNoPush(parents, i, startCellId, st) ==
  IF i > Len(parents) THEN st
  ELSE LET p == parents[i]
           h1 == IF st.cells[p].present THEN st.heap ELSE Append(st.heap, <<>>)
           c1 == IF st.cells[p].present THEN st.cells
                 ELSE [st.cells EXCEPT ![p] = CellRec(TextVal(<<>>), <<>>, Len(h1))]
       IN IF c1[p].deps = 0 THEN Result(c1, h1, "throw")
          ELSE addEdges(parents, i + 1, startCellId, Result(c1, h1, "ok"))
\* parents.forEach: materialise the parent, push the edited cell
addEdges(parents, i, startCellId, st) ==
  IF i > Len(parents) THEN st
  ELSE LET p == parents[i]
           fresh == ~st.cells[p].present
           h1 == IF fresh THEN Append(st.heap, <<>>) ELSE st.heap
           c1 == IF fresh THEN [st.cells EXCEPT ![p] = CellRec(TextVal(<<>>), <<>>, Len(h1))] ELSE st.cells
           ref == c1[p].deps
       IN IF ref = 0 THEN Result(c1, h1, "throw")
          ELSE LET h2 == IF startCellId \in Range(h1[ref]) THEN h1
                         ELSE [h1 EXCEPT ![ref] = Append(@, startCellId)]
               IN addEdges(parents, i + 1, startCellId, Result(c1, h2, "ok"))

\* { ...updatedCells, ...childResult }
mergeStores(updatedCells, childResult) ==
  [c \in Cells |-> IF childResult[c].present THEN childResult[c] ELSE updatedCells[c]]

\* the children are left as they are
refreshChildrenNone(children, i, st, depth) == st
RECURSIVE updateCellAndDependents(_, _, _, _, _)
RECURSIVE refreshChildren(_, _, _, _)
updateCellAndDependents(startCellId, newFormula, allCells, h, depth) ==
  LET parents == IF startsWithEq(newFormula) THEN matchRefs(toUpperCase(newFormula)) ELSE <<>>
      cyc == cycleCheck(startCellId, parents, 1, allCells, h)
      own == ownDependencies(startCellId, allCells, h)
  IN IF cyc = "overflow" THEN Result(allCells, h, "overflow")
     ELSE IF cyc = "true"
     THEN Result([allCells EXCEPT ![startCellId] = CellRec(CircularVal, newFormula, own.ref)],
                 own.heap, "circular")
     ELSE IF depth >= StackLimit THEN Result(allCells, h, "overflow")
     ELSE LET computedValue == calculateFormula(newFormula, allCells)
              updatedCells == [allCells EXCEPT ![startCellId] = CellRec(computedValue, newFormula, own.ref)]
              linked == addEdges(parents, 1, startCellId, Result(updatedCells, own.heap, "ok"))
          IN IF linked.status \in Thrown THEN linked
             ELSE refreshChildren(linked.heap[own.ref], 1, linked, depth)

\* children.forEach; the range of the loop is fixed when it starts
refreshChildren(children, i, st, depth) ==
  IF i > Len(children) \/ st.status \in Thrown THEN st
  ELSE LET childId == children[i]
           childData == st.cells[childId]
       IN IF ~childData.present THEN refreshChildren(children, i + 1, st, depth)
          ELSE LET childResult == updateCellAndDependents(childId, childData.formula, st.cells, st.heap, depth + 1)
               IN IF childResult.status \in Thrown
                  THEN Result(st.cells, childResult.heap, childResult.status)
                  ELSE refreshChildren(children, i + 1,
                         Result(mergeStores(st.cells, childResult.cells), childResult.heap, "ok"), depth)

\* ---------------------------------------------------------------- state
VARIABLES
  cells,         \* useState({}) of line 34: the store the grid shows
  heap,          \* the dependencies arrays, by reference
  focusedCell,   \* useState(null) of line 35
  history,       \* useState([{}]) of line 38
  historyIndex,  \* useState(0) of line 39
  crashed,       \* an exception left the blur handler
  last,          \* the last event handled, how it ended, the store it was given
  trip           \* commit / undo / redo in a row, with the stores it saw

vars == <<cells, heap, focusedCell, history, historyIndex, crashed, last, trip>>

NoCell == "null"
NoView == DeepView(EmptyStore, <<>>)
NoTrip == [phase |-> "none", before |-> NoView, after |-> NoView]
\* input: the store the handler was given, as it was when the handler began;
\* inputNow: the same store object when the handler returned
\* dropped: the number of history entries the handler discarded
Event(op, c, outcome, input, inputNow, dropped) ==
  [op |-> op, cell |-> c, outcome |-> outcome, input |-> input, inputNow |-> inputNow,
   dropped |-> dropped]
NoEvent == Event("none", NoCell, "", NoView, NoView, 0)
Click(op, outcome) == Event(op, NoCell, outcome, NoView, NoView, 0)

Init ==
  /\ cells = EmptyStore
  /\ heap = <<>>
  /\ focusedCell = NoCell
  /\ history = <<EmptyStore>>
  /\ historyIndex = 0
  /\ crashed = FALSE
  /\ last = NoEvent
  /\ trip = NoTrip

\* history[i] of the code, whose indices start at 0
Entry(i) == history[i + 1]

\* The arrays some store of the program still refers to; the others are
\* garbage, and the live ones are renumbered in allocation order.
LiveRefs(cs, hist) ==
  ({cs[c].deps : c \in Cells} \cup {hist[i][c].deps : i \in DOMAIN hist, c \in Cells}) \ {0}
Rank(r, live) == Cardinality({x \in live : x <= r})
CollectHeap(h, live) == [i \in 1..Cardinality(live) |-> h[CHOOSE r \in live : Rank(r, live) = i]]
Renumber(store, live) ==
  [c \in Cells |-> IF store[c].deps = 0 THEN store[c] ELSE [store[c] EXCEPT !.deps = Rank(@, live)]]

handleFocus(cellId) ==
  /\ ~crashed
  /\ focusedCell' = cellId
  /\ last' = NoEvent
  /\ trip' = NoTrip
  /\ UNCHANGED <<cells, heap, history, historyIndex, crashed>>

handleInputChange(cellId, text) ==
  /\ ~crashed
  /\ cells' = [cells EXCEPT ![cellId] = CellRec(TextVal(text), text, cells[cellId].deps)]
  /\ last' = NoEvent
  /\ trip' = NoTrip
  /\ UNCHANGED <<heap, focusedCell, history, historyIndex, crashed>>

\* the entry at the cursor is replaced by newCells
saveToHistoryOverwrite(newCells) == Append(SubSeq(history, 1, historyIndex), newCells)
\* history with newCells pushed, the future not chopped off
saveToHistoryNoSlice(newCells) == Append(history, newCells)
\* history.slice(0, historyIndex + 1) with newCells pushed
saveToHistory(newCells) == Append(SubSeq(history, 1, historyIndex + 1), newCells)

handleBlur(cellId) ==
  /\ ~crashed
  /\ focusedCell' = NoCell
  /\ LET formula == cells[cellId].formula
         finalState == updateCellAndDependents(cellId, formula, cells, heap, 0)
     IN /\ last' = Event("blur", cellId, finalState.status,
                        DeepView(cells, heap), DeepView(cells, finalState.heap),
                        IF finalState.status \in Thrown THEN 0 ELSE Len(history) - (historyIndex + 1))
        /\ IF finalState.status \in Thrown
           THEN /\ crashed' = TRUE
                /\ heap' = finalState.heap
                /\ trip' = NoTrip
                /\ UNCHANGED <<cells, history, historyIndex>>
           ELSE LET newHistory == saveToHistory(finalState.cells)
                    live == LiveRefs(finalState.cells, newHistory)
                IN /\ cells' = Renumber(finalState.cells, live)
                   /\ history' = [i \in DOMAIN newHistory |-> Renumber(newHistory[i], live)]
                   /\ historyIndex' = Len(newHistory) - 1
                   /\ heap' = CollectHeap(finalState.heap, live)
                   /\ trip' = [phase |-> "committed",
                               before |-> DeepView(Entry(historyIndex), heap),
                               after |-> DeepView(finalState.cells, finalState.heap)]
                   /\ UNCHANGED crashed

\* an undo that also pops the last entry of the history
handleUndoPop ==
  /\ ~crashed
  /\ IF historyIndex > 0
     THEN /\ historyIndex' = historyIndex - 1
          /\ cells' = Entry(historyIndex - 1)
          /\ history' = SubSeq(history, 1, Len(history) - 1)
          /\ last' = Click("undo", "ok")
     ELSE /\ last' = Click("undo", "noop")
          /\ UNCHANGED <<cells, historyIndex, history>>
  /\ trip' = NoTrip
  /\ UNCHANGED <<heap, focusedCell, crashed>>

handleUndo ==
  /\ ~crashed
  /\ IF historyIndex > 0
     THEN /\ historyIndex' = historyIndex - 1
          /\ cells' = Entry(historyIndex - 1)
          /\ last' = Click("undo", "ok")
     ELSE /\ last' = Click("undo", "noop")
          /\ UNCHANGED <<cells, historyIndex>>
  /\ trip' = IF trip.phase = "committed" /\ historyIndex > 0 THEN [trip EXCEPT !.phase = "undone"] ELSE NoTrip
  /\ UNCHANGED <<heap, focusedCell, history, crashed>>

\* a redo guarded by <= in place of <: the cursor leaves the history
handleRedoPastEnd ==
  /\ ~crashed
  /\ historyIndex' = historyIndex + 1
  /\ cells' = IF historyIndex < Len(history) - 1 THEN Entry(historyIndex + 1) ELSE EmptyStore
  /\ last' = Click("redo", "ok")
  /\ trip' = NoTrip
  /\ UNCHANGED <<heap, focusedCell, history, crashed>>

handleRedo ==
  /\ ~crashed
  /\ IF historyIndex < Len(history) - 1
     THEN /\ historyIndex' = historyIndex + 1
          /\ cells' = Entry(historyIndex + 1)
          /\ last' = Click("redo", "ok")
     ELSE /\ last' = Click("redo", "noop")
          /\ UNCHANGED <<cells, historyIndex>>
  /\ trip' = IF trip.phase = "undone" /\ historyIndex < Len(history) - 1 THEN [trip EXCEPT !.phase = "redone"] ELSE NoTrip
  /\ UNCHANGED <<heap, focusedCell, history, crashed>>

\* ---------------------------------------------------------------- events
\* The browser sends input events to the focused <input> only, gives the
\* focus to another element only after the blur of the one that had it, and a
\* click on a toolbar button takes the focus from the cell first.
CanEdit == historyIndex + 2 <= MaxHist
Focus(c) == focusedCell = NoCell /\ CanEdit /\ handleFocus(c)
Type(c, t) == focusedCell = c /\ handleInputChange(c, t)
Blur(c) == focusedCell = c /\ handleBlur(c)
ClickUndo == focusedCell = NoCell /\ handleUndo
ClickRedo == focusedCell = NoCell /\ handleRedo

Next ==
  \/ \E c \in EditCells : Focus(c)
  \/ \E c \in EditCells, t \in Texts : Type(c, t)
  \/ \E c \in EditCells : Blur(c)
  \/ ClickUndo
  \/ ClickRedo

Spec == Init /\ [][Next]_vars

\* Editing alone, over the three cells and the larger set of texts.
NextGrid ==
  \/ \E c \in Cells : Focus(c)
  \/ \E c \in Cells, t \in GridTexts : Type(c, t)
  \/ \E c \in Cells : Blur(c)

SpecGrid == Init /\ [][NextGrid]_vars

\* Editing alone, one commit longer, over the three cells and two texts.
ChainTexts == {RefPlusOne("A1"), RefPlusOne("b1")}
CanEditChain == historyIndex + 1 <= MaxHist
FocusChain(c) == focusedCell = NoCell /\ CanEditChain /\ handleFocus(c)
NextChain ==
  \/ \E c \in Cells : FocusChain(c)
  \/ \E c \in Cells, t \in ChainTexts : Type(c, t)
  \/ \E c \in Cells : Blur(c)

SpecChain == Init /\ [][NextChain]_vars

\* The handlers called in any order, as a script that dispatches change
\* and blur events can: text arrives in a cell that was
\* not focused and a cell is blurred while another holds uncommitted text.
AnyTexts == {<<NumT(5)>>, RefPlusOne("A1")}
AnyType(c, t) == handleInputChange(c, t)
AnyBlur(c) == CanEdit /\ handleBlur(c)
NextAny ==
  \/ \E c \in EditCells, t \in AnyTexts : AnyType(c, t)
  \/ \E c \in EditCells : AnyBlur(c)
  \/ handleUndo
  \/ handleRedo

SpecAny == Init /\ [][NextAny]_vars

\* ---------------------------------------------------------------- graphs
RECURSIVE Closure(_, _, _)
\* the cells reached from the set S by one or more steps of succ
Closure(S, succ(_), seen) ==
  LET next == UNION {succ(x) : x \in S}
  IN IF next \subseteq seen THEN seen ELSE Closure(next \ seen, succ, seen \cup next)

\* the cells reached from x by one or more dependents edges of a store
DependentsReach(store, h, x) ==
  LET succ(c) == Range(DepsOf(store, h, c)) IN Closure({x}, succ, {})
Acyclic(store, h) == \A c \in Cells : c \notin DependentsReach(store, h, c)

\* the cells a stored formula references
References(store, x) ==
  IF store[x].present /\ startsWithEq(store[x].formula)
  THEN Range(matchRefs(toUpperCase(store[x].formula))) ELSE {}
\* the cells x's formula depends on, directly or through formulas
FormulaReach(store, x) ==
  LET succ(c) == References(store, c) IN Closure({x}, succ, {})

Committed == last.op = "blur" /\ last.outcome \notin Thrown
Accepted == last.op = "blur" /\ last.outcome = "ok"
Rejected == last.op = "blur" /\ last.outcome = "circular"
Now == DeepView(cells, heap)

\* ---------------------------------------------------------------- C1
\* C1: in every snapshot of the history the dependents relation is acyclic:
\* no cell is reached from itself by one or more dependents edges.
C1_HistoryAcyclic == \A i \in DOMAIN history : Acyclic(history[i], heap)
\* an edit that would close a cycle of two cells was rejected
C1_Witness ==
  /\ Rejected
  /\ last.cell \notin References(cells, last.cell)
  /\ DepsOf(cells, heap, last.cell) # <<>>

\* ---------------------------------------------------------------- C2
\* C2: a commit leaves its input store as it was: every cell record of the
\* input, its dependents list included, is the same after the call.
C2_InputNotMutated == Committed => last.inputNow = last.input

\* ---------------------------------------------------------------- C3
\* C3: undo right after a commit shows the snapshot the commit was made on,
\* as it was before the commit; redo right after that shows the committed one.
C3_RoundTrip ==
  /\ trip.phase = "undone" => Now = trip.before
  /\ trip.phase = "redone" => Now = trip.after

\* ---------------------------------------------------------------- C4
\* C4 (as claimed): after every commit, accepted or rejected, a cell whose
\* stored formula references Y is in Y's dependents list.
C4_EveryReferenceHasEdge ==
  Committed => \A x \in Cells, y \in Cells :
                 y \in References(cells, x) => x \in Range(DepsOf(cells, heap, y))
\* C4 (amended): after every commit, a cell whose stored formula references Y
\* and whose value is not #CIRCULAR (its formula passed the cycle check) is
\* in the dependents list of Y, and Y is a cell of the store.
C4_AcceptedReferenceHasEdge ==
  Committed => \A x \in Cells, y \in Cells :
                 (y \in References(cells, x) /\ cells[x].value # CircularVal)
                   => (cells[y].present /\ x \in Range(DepsOf(cells, heap, y)))
\* an accepted commit of a formula with a reference, next to a rejected one
C4_Witness ==
  /\ Accepted
  /\ References(cells, last.cell) # {}
  /\ \E x \in Cells : cells[x].value = CircularVal

\* ---------------------------------------------------------------- C5
\* the new formula of x closes a cycle of the formulas' reference graph
FormulaCycle(store, x) ==
  \E p \in References(store, x) : p = x \/ x \in FormulaReach(store, p)
\* C5: a commit tags the edited cell #CIRCULAR only if its new formula
\* references the cell itself or a cell whose formula depends on it.
C5_CircularOnlyOnFormulaCycle == Rejected => FormulaCycle(cells, last.cell)

\* ---------------------------------------------------------------- C6
\* C6: a rejected edit returns the input store with the edited cell alone
\* changed: value #CIRCULAR, formula the new text, dependents as before; no
\* dependents list has gained an entry, no other cell has another value.
C6_RejectionChangesEditedCellOnly ==
  Rejected =>
    /\ last.inputNow = last.input
    /\ \A c \in Cells \ {last.cell} : Now[c] = last.input[c]
    /\ Now[last.cell].value = CircularVal
    /\ Now[last.cell].formula = last.input[last.cell].formula
    /\ Now[last.cell].dependents = last.input[last.cell].dependents
\* A1 = "=b1+1" is rejected while B1 = "=A1+1" holds a number and is a
\* dependent of A1
C6_Witness ==
  /\ Rejected /\ last.cell = "A1"
  /\ cells["A1"].formula = RefPlusOne("b1")
  /\ cells["B1"].formula = RefPlusOne("A1") /\ cells["B1"].value.kind = "num"
  /\ Now["A1"].dependents = <<"B1">>

\* ---------------------------------------------------------------- C7
\* the commit set x to #ERROR, or recomputed it to #ERROR
Poisoned(x) == Now[x].value = ErrorVal /\ (x = last.cell \/ last.input[x].value # ErrorVal)
\* C7 (as claimed): after a commit that sets or recomputes X to #ERROR, every
\* cell whose formula references X, directly or through a chain, is #ERROR.
C7_ErrorReachesEveryReferrer ==
  Committed => \A x \in Cells, y \in Cells :
                 (Poisoned(x) /\ x \in FormulaReach(cells, y)) => cells[y].value = ErrorVal
\* the cells whose formula references x, directly or through a chain, with
\* no cell of the chain tagged #CIRCULAR
AcceptedReferrers(store, x) ==
  LET succ(c) == {y \in Cells : c \in References(store, y) /\ store[y].value # CircularVal}
  IN Closure({x}, succ, {})
\* C7 (amended): after a commit that sets or recomputes X to #ERROR, every
\* cell whose formula references X, directly or through a chain of cells none
\* of which is tagged #CIRCULAR, is #ERROR.
C7_ErrorReachesAcceptedReferrers ==
  Committed => \A x \in Cells :
                 Poisoned(x) => \A y \in AcceptedReferrers(cells, x) : cells[y].value = ErrorVal
\* A1 is set to #ERROR; B1 references A1 and C1 references B1
C7_Witness ==
  /\ Accepted /\ last.cell = "A1" /\ cells["A1"].value = ErrorVal
  /\ "A1" \in References(cells, "B1") /\ "B1" \in References(cells, "C1")
  /\ last.input["C1"].value.kind = "num"
  /\ cells["C1"].value = ErrorVal

\* ---------------------------------------------------------------- C8
\* the formulas the evaluator rejects whatever the cells hold
RejectedByEvaluator == {Malformed, Dangling}
\* C8 (as claimed): a committed formula that the evaluator rejects gives the
\* edited cell #ERROR, "=A1+" entered into A1 included.
C8_MalformedGivesError ==
  (Committed /\ cells[last.cell].formula \in RejectedByEvaluator)
    => cells[last.cell].value = ErrorVal
\* C8 (amended): a committed formula that the evaluator rejects gives the
\* edited cell #ERROR unless the cycle check rejects the edit, which gives
\* #CIRCULAR; "=A1+" entered into A1 references A1 and gives #CIRCULAR, and
\* B1 = "=A1+1", when accepted afterwards, is #ERROR.
C8_MalformedGivesErrorUnlessCircular ==
  /\ (Committed /\ cells[last.cell].formula \in RejectedByEvaluator)
       => cells[last.cell].value = (IF Accepted THEN ErrorVal ELSE CircularVal)
  /\ (Committed /\ last.cell = "A1" /\ cells["A1"].formula = Malformed)
       => cells["A1"].value = CircularVal
  /\ (Accepted /\ last.cell = "B1" /\ cells["B1"].formula = RefPlusOne("A1")
        /\ cells["A1"].formula = Malformed)
       => cells["B1"].value = ErrorVal
\* "=A1+" was entered into A1, then "=A1+1" into B1
C8_Witness ==
  /\ Accepted /\ last.cell = "B1" /\ cells["B1"].formula = RefPlusOne("A1")
  /\ cells["A1"].formula = Malformed /\ cells["A1"].value = CircularVal
  /\ cells["B1"].value = ErrorVal
\* "=A1+" was entered into B1 and accepted
C8_WitnessError ==
  Accepted /\ last.cell = "B1" /\ cells["B1"].formula = Malformed /\ cells["B1"].value = ErrorVal

\* ---------------------------------------------------------------- C9
\* C9: a blur of a cell whose text references the cell itself ends with the
\* cell tagged #CIRCULAR, whatever the store holds.
C9_SelfReferenceIsCircular ==
  (last.op = "blur" /\ last.cell \in References(last.input, last.cell))
    => (last.outcome = "circular" /\ cells[last.cell].value = CircularVal)
\* "=A1+" was entered into A1 while A1 had a dependent
C9_Witness ==
  /\ Rejected /\ last.cell = "A1" /\ cells["A1"].formula = Malformed
  /\ Now["A1"].dependents # <<>>

\* ---------------------------------------------------------------- C10
\* the records of a store, without the array references
Records(store) == [c \in Cells |-> [present |-> store[c].present, value |-> store[c].value,
                                     formula |-> store[c].formula, hasDeps |-> store[c].deps # 0]]
\* this step is a blur that committed
CommitStep == focusedCell # NoCell /\ last'.op = "blur" /\ last'.outcome \notin Thrown
\* C10: a commit keeps the entries 0..cursor, drops the later ones, appends
\* the new snapshot and puts the cursor on it, so that redo is unavailable.
C10_CommitTruncatesAndAppends ==
  [][CommitStep =>
       /\ Len(history') = historyIndex + 2
       /\ \A i \in 1..(historyIndex + 1) : Records(history'[i]) = Records(history[i])
       /\ history'[Len(history')] = cells'
       /\ historyIndex' = Len(history') - 1]_vars
\* a commit made after an undo has dropped an entry
C10_Witness == Committed /\ last.dropped > 0 /\ historyIndex = Len(history) - 1

\* ---------------------------------------------------------------- C11
\* C11: undo moves the cursor down by one, or does nothing at cursor 0; redo
\* moves it up by one, or does nothing at the last index; neither changes the
\* history or its arrays, and the store shown is the entry at the new cursor.
C11_UndoRedoMoveCursorOnly ==
  [][/\ last'.op = "undo" =>
          historyIndex' = (IF historyIndex > 0 THEN historyIndex - 1 ELSE historyIndex)
     /\ last'.op = "redo" =>
          historyIndex' = (IF historyIndex < Len(history) - 1 THEN historyIndex + 1 ELSE historyIndex)
     /\ last'.op \in {"undo", "redo"} =>
          /\ history' = history
          /\ heap' = heap
          /\ cells' = history'[historyIndex' + 1]]_vars
\* a redo from the middle of the history to the middle of the history
C11_Witness ==
  last.op = "redo" /\ last.outcome = "ok" /\ historyIndex > 0 /\ historyIndex < Len(history) - 1

\* ---------------------------------------------------------------- C12
\* C12: the history is never empty and the cursor is one of its indices.
C12_CursorValid ==
  Len(history) >= 1 /\ 0 <= historyIndex /\ historyIndex <= Len(history) - 1
\* a redo at the last index, refused
C12_Witness ==
  /\ last.op = "redo" /\ last.outcome = "noop"
  /\ Len(history) > 1 /\ historyIndex = Len(history) - 1

\* ---------------------------------------------------------------- C13
\* this step is the blur of the focused cell
BlurStep == focusedCell # NoCell /\ focusedCell' = NoCell
\* C13: every blur, that of a rejected edit and that of an unchanged cell
\* included, leaves the history with the entries up to the old cursor and
\* one new entry, the store now shown, with the cursor on it.
C13_EveryBlurAppendsOne ==
  [][BlurStep =>
       /\ last'.outcome \in {"ok", "circular"}
       /\ historyIndex' = historyIndex + 1
       /\ Len(history') = historyIndex' + 1
       /\ history'[Len(history')] = cells']_vars
\* a rejected edit, committed after an undo, took the place of the redo tail
C13_Witness ==
  Rejected /\ last.dropped > 0 /\ historyIndex > 0 /\ historyIndex = Len(history) - 1

\* ---------------------------------------------------------------- C14
\* the value of a formula when its reference to p is taken as 0
ValueWithZero(formula, p) ==
  LET expression == toUpperCase(Tail(formula))
  IN evaluate([i \in DOMAIN expression |->
                 IF expression[i] = RefT(p) THEN NumT(0) ELSE expression[i]])
\* C14: an accepted commit of a formula that references a cell the store
\* does not hold adds that cell with value "", formula "" and the edited cell
\* as its only dependent, and evaluates the formula with the reference as 0.
C14_AbsentReferenceBecomesPlaceholder ==
  Accepted => \A p \in References(cells, last.cell) :
                ~last.input[p].present =>
                  /\ Now[p].present
                  /\ Now[p].value = TextVal(<<>>)
                  /\ Now[p].formula = <<>>
                  /\ Now[p].dependents = <<last.cell>>
                  /\ cells[last.cell].value = ValueWithZero(cells[last.cell].formula, p)
\* "=b1+1" entered into C1 while the store did not hold B1
C14_Witness ==
  /\ Accepted /\ last.cell = "C1" /\ cells["C1"].formula = RefPlusOne("b1")
  /\ ~last.input["B1"].present
  /\ cells["C1"].value = NumVal(1)
  /\ Now["B1"].dependents = <<"C1">>

\* ---------------------------------------------------------------- C15
NoDuplicates(seq) == Cardinality(Range(seq)) = Len(seq)
\* C15: no dependents list, of the store shown or of a history entry, holds
\* the same cell id twice.
C15_NoDuplicateDependents ==
  \A c \in Cells :
    /\ NoDuplicates(DepsOf(cells, heap, c))
    /\ \A i \in DOMAIN history : NoDuplicates(DepsOf(history[i], heap, c))
\* "=A1+A1" was committed into B1 when A1 already had B1 as a dependent
C15_Witness ==
  /\ Accepted /\ last.cell = "B1" /\ cells["B1"].formula = TwiceRef
  /\ last.input["A1"].dependents = <<"B1">>
  /\ Now["A1"].dependents = <<"B1">>

\* ---------------------------------------------------------------- C16
\* C16: no commit throws; every blur ends with the edited cell holding a
\* number, its literal text, #ERROR or #CIRCULAR.
C16_CommitNeverThrows ==
  /\ ~crashed
  /\ last.op = "blur" =>
       /\ last.outcome \in {"ok", "circular"}
       /\ cells[last.cell].present
       /\ cells[last.cell].value.kind \in {"num", "text", "#ERROR", "#CIRCULAR"}

\* ---------------------------------------------------------------- C17
\* C17 (as claimed): hasCircularDependency(editedCell, candidateParent, store)
\* is true exactly when the two are equal or editedCell is reachable from
\* candidateParent by dependents edges.
C17_TrueIffEditedReachableFromParent ==
  \A editedCell \in Cells, candidateParent \in Cells :
    (hasCircularDependency(editedCell, candidateParent, cells, heap, 0) = "true")
      <=> (candidateParent = editedCell
           \/ editedCell \in DependentsReach(cells, heap, candidateParent))
\* C17 (amended): on every store the program reaches the call returns, and
\* is true exactly when the two are equal or candidateParent is reachable
\* from editedCell by dependents edges.
C17_TrueIffParentReachableFromEdited ==
  \A editedCell \in Cells, candidateParent \in Cells :
    LET r == hasCircularDependency(editedCell, candidateParent, cells, heap, 0)
    IN /\ r \in {"true", "false"}
       /\ (r = "true") <=> (candidateParent = editedCell
                            \/ candidateParent \in DependentsReach(cells, heap, editedCell))
\* C1 is found from A1 through B1, and A1 is not found from C1
C17_Witness ==
  /\ DepsOf(cells, heap, "A1") = <<"B1">>
  /\ DepsOf(cells, heap, "B1") = <<"C1">>
  /\ hasCircularDependency("A1", "C1", cells, heap, 0) = "true"
  /\ hasCircularDependency("C1", "A1", cells, heap, 0) = "false"

\* ---------------------------------------------------------------- C18
\* C18: after an accepted commit every cell reached from the edited cell by
\* dependents edges, unless it is tagged #CIRCULAR, has the value its stored
\* formula evaluates to against the returned store.
C18_RefreshedValuesMatchFormulas ==
  Accepted => \A y \in DependentsReach(cells, heap, last.cell) :
                (cells[y].present /\ cells[y].value # CircularVal)
                  => cells[y].value = calculateFormula(cells[y].formula, cells)

\* ---------------------------------------------------------------- C19
\* C19: in every committed store each entry of a cell's dependents list is a
\* cell whose current formula references that cell.
C19_DependentsReferenceTheCell ==
  Committed => \A y \in Cells : \A x \in Range(DepsOf(cells, heap, y)) :
                 y \in References(cells, x)

\* ---------------------------------------------------------------- C20
\* C20: every commit terminates: neither the cycle check nor the refresh of
\* the dependents recurses without end.
C20_CommitTerminates == last.op = "blur" => last.outcome # "overflow"
\* a commit on a store restored by undo refreshed the dependents of the cell
C20_Witness ==
  /\ Accepted /\ last.dropped > 0
  /\ last.input[last.cell].dependents # <<>>

====
